---- MODULE Spec2Model ----
(***************************************************************************)
(* SC.ObjectProxy (src/lib/core.js): a controller that forwards unknown    *)
(* keys to its "observable content", the single target resolved from the   *)
(* content attribute.                                                      *)
(*                                                                         *)
(* The observable-object framework (SC.get, SC.set, SC.computed,           *)
(* SC.defineProperty, observers) is a collaborator of core.js and is       *)
(* modelled by the contract core.js relies on:                             *)
(*   - SC.set(obj, key, v) stores v and notifies the change of key;        *)
(*   - a .cacheable() computed property keeps the value its function       *)
(*     returned (on get and on set) until the key itself or one of its     *)
(*     declared dependent keys is notified;                                *)
(*   - a dependent key 'a.b' is notified when a changes and when b         *)
(*     changes on the object that a currently holds;                       *)
(*   - get/set of a key the object does not define go to unknownProperty   *)
(*     (key, value); get/set of a defined computed key go to its accessor. *)
(* Collections are structurally immutable here: the operations modelled    *)
(* write content, the two flags, forwarded keys and element properties.    *)
(***************************************************************************)
EXTENDS Integers, Sequences, FiniteSets

\* ------------------------------------------------------------------ bounds
\* Number of distinct defined values a property may hold (1..MaxValues).
MaxValues == 2

\* ------------------------------------------------------------ the universe
\* JavaScript's undefined as a property value (core.js line 175 returns it).
UndefinedVal == 0
Values == 1..MaxValues
PropVals == {UndefinedVal} \cup Values

\* Forwarded property names read and written through the proxy.
Keys == {"name"}

\* Proxy instances; live (chosen by Init) are the ones constructed.
Proxies == {"A", "B"}

\* References. Null is JavaScript's null; Objects are observable scalars.
Null == "null"
Objects == {"o1", "o2"}
Collections == {"empty", "single", "multi", "nested", "nestedEmpty",
                "nestedSingle", "singleNull"}
Refs == {Null} \cup Objects \cup Collections

\* The ordered elements of a collection (its length and firstObject follow).
items(c) ==
    CASE c = "empty"        -> << >>
      [] c = "single"       -> <<"o1">>
      [] c = "multi"        -> <<"o1", "o2">>
      [] c = "nested"       -> <<"multi">>
      [] c = "nestedEmpty"  -> <<"empty">>
      [] c = "nestedSingle" -> <<"single">>
      [] c = "singleNull"   -> <<Null>>
      [] OTHER              -> << >>

\* What a forwarded read returns or caches: one value, or an array of the
\* per-element values. Uncached marks an empty cache slot.
Val(v) == [tag |-> "value", v |-> v, seq |-> << >>]
Arr(s) == [tag |-> "array", v |-> UndefinedVal, seq |-> s]
Undefined == Val(UndefinedVal)
Uncached == [tag |-> "uncached", v |-> UndefinedVal, seq |-> << >>]
\* The empty slot of the observableContent cache.
NoOC == "uncached"

VARIABLES
    live,                   \* the proxy instances that exist
    rejecting,              \* the content objects whose set throws
    content,                \* content attribute, per proxy
    allowsMultipleContent,  \* flag, per proxy
    isEditable,             \* flag, per proxy
    ocCache,                \* cached observableContent, per proxy
    installed,              \* keys with an accessor defined on the instance
    keyCache,               \* cached value of each forwarded accessor
    proxiedProperties,      \* _proxiedProperties: the SC.Set of forwarded keys
    props,                  \* the properties of the content objects
    last,                   \* the last operation performed and its outcome
    effects                 \* the calls the last operation made

vars == <<live, rejecting, content, allowsMultipleContent, isEditable, ocCache,
          installed, keyCache, proxiedProperties, props, last, effects>>

\* ----------------------------------------------------- Content Resolver
isEnumerable(x) == x \in Collections

firstObject(c) == items(c)[1]

\* Mutant: the nested-enumerable guard of line 132 left out.
observableContentNoNestedGuard(c, allowsMultiple) ==
    IF c # Null /\ isEnumerable(c)
    THEN LET len == Len(items(c))
         IN  IF len = 1 THEN firstObject(c)
             ELSE IF len = 0 \/ ~allowsMultiple THEN Null
             ELSE c
    ELSE c

\* Mutant: a collection of one element is not unwrapped.
observableContentNoUnwrap(c, allowsMultiple) ==
    IF c # Null /\ isEnumerable(c)
    THEN LET len == Len(items(c))
             c1  == IF len = 0 \/ ~allowsMultiple THEN Null ELSE c
         IN  IF c1 # Null /\ ~allowsMultiple /\ isEnumerable(c1)
             THEN Null ELSE c1
    ELSE c

\* The body of the observableContent computed property.
observableContent(c, allowsMultiple) ==
    IF c # Null /\ isEnumerable(c)
    THEN LET len == Len(items(c))
             c1  == IF len = 1 THEN firstObject(c)
                    ELSE IF len = 0 \/ ~allowsMultiple THEN Null
                    ELSE c
         IN  IF c1 # Null /\ ~allowsMultiple /\ isEnumerable(c1)
             THEN Null ELSE c1
    ELSE c

\* Mutant: allowsMultipleContent missing from the declared dependencies.
ocDependentKeysContentOnly == {"content"}

\* .property('content', 'allowsMultipleContent')
ocDependentKeys == {"content", "allowsMultipleContent"}

\* get(this, 'observableContent'): the cached value, else the body's result.
getObservableContent(p) ==
    IF ocCache[p] # NoOC THEN ocCache[p]
    ELSE observableContent(content[p], allowsMultipleContent[p])

\* The observableContent cache of p after attribute key of p was set.
ocCacheAfterSet(p, key) ==
    IF key \in ocDependentKeys THEN [ocCache EXCEPT ![p] = NoOC] ELSE ocCache

\* --------------------------------------------------- Property Forwarder
\* SC.get(x, key) on an element or target; undefined when x is no object.
getProp(x, k, pr) == IF x \in Objects THEN pr[x][k] ELSE UndefinedVal

\* content.getEach(key): one value per element, in order.
getEach(c, k, pr) == [i \in 1..Len(items(c)) |-> getProp(items(c)[i], k, pr)]

\* value.uniq().get('length')
uniqLength(s) == Cardinality({s[i] : i \in DOMAIN s})

\* Mutant: the gathered values are returned without the uniq() collapse.
forwardGetNoCollapse(oc, k, pr) ==
    IF isEnumerable(oc)
    THEN LET value == getEach(oc, k, pr)
         IN  IF Len(value) = 0 THEN Undefined ELSE Arr(value)
    ELSE Val(getProp(oc, k, pr))

\* The read branch of the forwarded accessor (value === undefined).
forwardGet(oc, k, pr) ==
    IF isEnumerable(oc)
    THEN LET value == getEach(oc, k, pr)
         IN  IF Len(value) = 0 THEN Undefined
             ELSE IF uniqLength(value) = 1 THEN Val(value[1])
             ELSE Arr(value)
    ELSE Val(getProp(oc, k, pr))

\* Mutant: setEach reaches only the first element.
setTargetsFirstOnly(oc) ==
    IF isEnumerable(oc)
    THEN {items(oc)[i] : i \in (DOMAIN items(oc)) \cap {1}} \cap Objects
    ELSE {oc} \cap Objects

\* The objects a forwarded write sets the key on: every element of an
\* enumerable target (setEach), else the target itself (set). setEach sets
\* the elements in order, so it reaches the elements before the first one
\* whose set throws.
setTargets(oc) ==
    IF isEnumerable(oc)
    THEN {items(oc)[i] : i \in {j \in DOMAIN items(oc) :
                \A h \in 1..j : items(oc)[h] \notin rejecting}} \cap Objects
    ELSE ({oc} \cap Objects) \ rejecting

\* The forwarded write throws out of setEach or set: the set of an element,
\* or of the target itself, throws.
setFails(oc) ==
    IF isEnumerable(oc)
    THEN \E i \in DOMAIN items(oc) : items(oc)[i] \in rejecting
    ELSE oc \in rejecting

\* The write branch's effect on the content objects.
forwardSet(oc, k, value, pr) ==
    [o \in Objects |->
        IF o \in setTargets(oc) THEN [pr[o] EXCEPT ![k] = value] ELSE pr[o]]

\* The write branch past the isEditable check: setEach or set, then
\* return value; an error thrown by a set leaves the function before the
\* return.
forwardWrite(oc, k, value, pr) ==
    [ret |-> IF setFails(oc) THEN Undefined ELSE Val(value),
     threw |-> setFails(oc),
     props |-> forwardSet(oc, k, value, pr), written |-> setTargets(oc)]

\* Mutant: the isEditable check left out of the write branch.
computedAccessorNoEditableCheck(oc, editable, k, value, pr) ==
    IF oc = Null
    THEN [ret |-> Undefined, threw |-> FALSE, props |-> pr, written |-> {}]
    ELSE IF value = UndefinedVal
    THEN [ret |-> forwardGet(oc, k, pr), threw |-> FALSE, props |-> pr,
          written |-> {}]
    ELSE forwardWrite(oc, k, value, pr)

\* Mutant: no empty-content guard; the write branch then runs on null and
\* the isEditable check precedes it.
computedAccessorNoEmptyGuard(oc, editable, k, value, pr) ==
    IF value = UndefinedVal
    THEN [ret |-> IF oc = Null THEN Undefined ELSE forwardGet(oc, k, pr),
          threw |-> FALSE, props |-> pr, written |-> {}]
    ELSE IF ~editable \/ oc = Null
    THEN [ret |-> Undefined, threw |-> TRUE, props |-> pr, written |-> {}]
    ELSE forwardWrite(oc, k, value, pr)

\* Mutant: with no target a write returns the written value, which the
\* cache then keeps.
computedAccessorKeepsValue(oc, editable, k, value, pr) ==
    IF oc = Null
    THEN [ret |-> IF value = UndefinedVal THEN Undefined ELSE Val(value),
          threw |-> FALSE, props |-> pr, written |-> {}]
    ELSE IF value = UndefinedVal
    THEN [ret |-> forwardGet(oc, k, pr), threw |-> FALSE, props |-> pr,
          written |-> {}]
    ELSE IF ~editable
    THEN [ret |-> Undefined, threw |-> TRUE, props |-> pr, written |-> {}]
    ELSE forwardWrite(oc, k, value, pr)

\* Mutant: the isEditable check made before the test for a value.
computedAccessorChecksEditableFirst(oc, editable, k, value, pr) ==
    IF oc = Null
    THEN [ret |-> Undefined, threw |-> FALSE, props |-> pr, written |-> {}]
    ELSE IF ~editable
    THEN [ret |-> Undefined, threw |-> TRUE, props |-> pr, written |-> {}]
    ELSE IF value = UndefinedVal
    THEN [ret |-> forwardGet(oc, k, pr), threw |-> FALSE, props |-> pr,
          written |-> {}]
    ELSE forwardWrite(oc, k, value, pr)

\* The function given to SC.computed for a forwarded key: what it returns,
\* whether it throws the "is not editable" error, the content objects'
\* properties after it and the objects it set the key on. oc is
\* get(this, 'observableContent').
computedAccessor(oc, editable, k, value, pr) ==
    IF oc = Null
    THEN [ret |-> Undefined, threw |-> FALSE, props |-> pr, written |-> {}]
    ELSE IF value = UndefinedVal
    THEN [ret |-> forwardGet(oc, k, pr), threw |-> FALSE, props |-> pr,
          written |-> {}]
    ELSE IF ~editable
    THEN [ret |-> Undefined, threw |-> TRUE, props |-> pr, written |-> {}]
    ELSE forwardWrite(oc, k, value, pr)

\* get of an installed cacheable accessor: the cached value when there is
\* one, else the function's result; ran tells whether the function ran.
cpGet(p, k) ==
    IF keyCache[p][k] # Uncached
    THEN [ret |-> keyCache[p][k], ran |-> FALSE]
    ELSE [ret |-> computedAccessor(getObservableContent(p), isEditable[p],
                                   k, UndefinedVal, props).ret,
          ran |-> TRUE]

\* Mutant: the dependency 'observableContent.' + key not declared.
dependentKeyDidChangeNone(kc, q, k) == kc[q][k]

\* .property('observableContent.' + key): the cache of key k on proxy q is
\* dropped when the dependent key is notified.
dependentKeyDidChange(kc, q, k) ==
    IF k \in installed[q] THEN Uncached ELSE kc[q][k]

\* The key caches after observableContent of proxy p was notified.
observableContentDidChange(kc, p) ==
    [q \in Proxies |->
        IF q = p THEN [k \in Keys |-> dependentKeyDidChange(kc, q, k)]
        ELSE kc[q]]

\* The key caches after key k was set on each of the objects in changed:
\* the accessors whose observableContent is one of them are notified, but
\* for the accessor of proxy writer, whose own set is in progress.
elementDidChange(kc, changed, k, writer) ==
    [q \in Proxies |->
        IF /\ q # writer
           /\ observableContent(content[q], allowsMultipleContent[q])
                  \in changed
        THEN [kc[q] EXCEPT ![k] = dependentKeyDidChange(kc, q, k)]
        ELSE kc[q]]

\* Mutant: the observer notifies nothing.
contentDidChangeNone(kc, p) == kc

\* contentDidChange, the observer of 'content': notifyPropertyChange for
\* every key of _proxiedProperties.
contentDidChange(kc, p) ==
    [kc EXCEPT ![p] = [k \in Keys |->
        IF k \in proxiedProperties THEN Uncached ELSE kc[p][k]]]

\* ------------------------------------------------------------ operations
NoBefore == [k \in Keys |-> Uncached]

\* The content objects that expose a destroy function.
Destroyable == {"o1"}

\* The calls an operation made: content.destroy() per object,
\* notifyPropertyChange(key) and SC.defineProperty(this, key, ...) per key,
\* the boolean a read of hasContent returned and the receiver destroy()
\* returned.
Effects(destroyed, notified, defined, bool, self) ==
    [destroyed |-> [o \in Objects |-> IF o \in destroyed THEN 1 ELSE 0],
     notified |-> notified,
     defined |-> [k \in Keys |-> IF k \in defined THEN 1 ELSE 0],
     bool |-> bool, self |-> self]

NoCalls == [k \in Keys |-> 0]
NoEffects == Effects({}, NoCalls, {}, FALSE, "")

\* Mutant: contentDidChange calls notifyPropertyChange for no key.
contentDidChangeCallsNone(p) == NoCalls

\* The notifyPropertyChange(key) calls of contentDidChange: one for every
\* key of _proxiedProperties.
contentDidChangeCalls(p) ==
    [k \in Keys |-> IF k \in proxiedProperties THEN 1 ELSE 0]

\* The record of an operation; prevOp on prevP is the operation before it.
Outcome(op, p, key, arg, ret, ref, threw, ran, first, modified, before, stale) ==
    [op |-> op, p |-> p, key |-> key, arg |-> arg, ret |-> ret, ref |-> ref,
     threw |-> threw, ran |-> ran, first |-> first, modified |-> modified,
     before |-> before, stale |-> stale, prevOp |-> last.op, prevP |-> last.p]

Init ==
    /\ live = {"A"}
    /\ rejecting = {}
    /\ content = [p \in Proxies |-> Null]
    /\ allowsMultipleContent = [p \in Proxies |-> FALSE]
    /\ isEditable = [p \in Proxies |-> TRUE]
    /\ ocCache = [p \in Proxies |-> NoOC]
    /\ installed = [p \in Proxies |-> {}]
    /\ keyCache = [p \in Proxies |-> NoBefore]
    /\ proxiedProperties = {}
    /\ props \in [Objects -> [Keys -> PropVals]]
    /\ last = [op |-> "create", p |-> "", key |-> "", arg |-> UndefinedVal,
               ret |-> Undefined, ref |-> Null, threw |-> FALSE,
               ran |-> FALSE, first |-> FALSE, modified |-> FALSE,
               before |-> NoBefore, stale |-> Uncached, prevOp |-> "create",
               prevP |-> ""]
    /\ effects = NoEffects

\* Mutant: content assigned without set(): nothing is notified.
SetContentSilent(p, c) ==
    /\ content' = [content EXCEPT ![p] = c]
    /\ last' = Outcome("setContent", p, "", UndefinedVal, Undefined, c, FALSE,
                       FALSE, FALSE, FALSE, keyCache[p], Uncached)
    /\ effects' = NoEffects
    /\ UNCHANGED <<live, rejecting, allowsMultipleContent, isEditable, installed,
                   proxiedProperties, props, ocCache, keyCache>>

\* set(proxy, 'content', c)
SetContent(p, c) ==
    /\ content' = [content EXCEPT ![p] = c]
    /\ ocCache' = ocCacheAfterSet(p, "content")
    /\ keyCache' = contentDidChange(observableContentDidChange(keyCache, p), p)
    /\ last' = Outcome("setContent", p, "", UndefinedVal, Undefined, c, FALSE,
                       FALSE, FALSE, FALSE, keyCache[p], Uncached)
    /\ effects' = Effects({}, contentDidChangeCalls(p), {}, FALSE, "")
    /\ UNCHANGED <<live, rejecting, allowsMultipleContent, isEditable, installed,
                   proxiedProperties, props>>

\* Mutant: allowsMultipleContent assigned without set(): nothing is
\* notified.
SetAllowsMultipleContentSilent(p, b) ==
    /\ allowsMultipleContent' = [allowsMultipleContent EXCEPT ![p] = b]
    /\ last' = Outcome("setAllowsMultipleContent", p, "", UndefinedVal,
                       Undefined, Null, FALSE, FALSE, FALSE, FALSE,
                       keyCache[p], Uncached)
    /\ effects' = NoEffects
    /\ UNCHANGED <<live, rejecting, content, isEditable, ocCache, installed, keyCache,
                   proxiedProperties, props>>

\* set(proxy, 'allowsMultipleContent', b)
SetAllowsMultipleContent(p, b) ==
    /\ allowsMultipleContent' = [allowsMultipleContent EXCEPT ![p] = b]
    /\ ocCache' = ocCacheAfterSet(p, "allowsMultipleContent")
    /\ keyCache' = IF "allowsMultipleContent" \in ocDependentKeys
                   THEN observableContentDidChange(keyCache, p)
                   ELSE keyCache
    /\ last' = Outcome("setAllowsMultipleContent", p, "", UndefinedVal,
                       Undefined, Null, FALSE, FALSE, FALSE, FALSE,
                       keyCache[p], Uncached)
    /\ effects' = NoEffects
    /\ UNCHANGED <<live, rejecting, content, isEditable, installed, proxiedProperties,
                   props>>

\* set(proxy, 'isEditable', b)
SetIsEditable(p, b) ==
    /\ isEditable' = [isEditable EXCEPT ![p] = b]
    /\ last' = Outcome("setIsEditable", p, "", UndefinedVal, Undefined, Null,
                       FALSE, FALSE, FALSE, FALSE, keyCache[p], Uncached)
    /\ effects' = NoEffects
    /\ UNCHANGED <<live, rejecting, content, allowsMultipleContent, ocCache, installed,
                   keyCache, proxiedProperties, props>>

\* get(proxy, 'observableContent')
GetObservableContent(p) ==
    /\ ocCache' = [ocCache EXCEPT ![p] = getObservableContent(p)]
    /\ last' = Outcome("getObservableContent", p, "", UndefinedVal, Undefined,
                       getObservableContent(p), FALSE, ocCache[p] = NoOC,
                       FALSE, FALSE, keyCache[p], Uncached)
    /\ effects' = NoEffects
    /\ UNCHANGED <<live, rejecting, content, allowsMultipleContent, isEditable,
                   installed, keyCache, proxiedProperties, props>>

\* unknownProperty(key, value), reached by the first get or set of key on
\* the instance: the key is remembered, the accessor is defined and then
\* read with get(this, key); value is not passed on.
unknownProperty(p, k, value, op) ==
    LET oc  == getObservableContent(p)
        ret == computedAccessor(oc, isEditable[p], k, UndefinedVal, props).ret
    IN  /\ proxiedProperties' = proxiedProperties \cup {k}
        /\ installed' = [installed EXCEPT ![p] = @ \cup {k}]
        /\ ocCache' = [ocCache EXCEPT ![p] = oc]
        /\ keyCache' = [keyCache EXCEPT ![p][k] = ret]
        /\ last' = Outcome(op, p, k, value, ret, Null, FALSE, TRUE, TRUE,
                           FALSE, keyCache[p], Uncached)
        /\ effects' = Effects({}, NoCalls, {k}, FALSE, "")
        /\ UNCHANGED <<live, rejecting, content, allowsMultipleContent, isEditable,
                       props>>

\* The cache of k as it was before the write of content or of
\* allowsMultipleContent that came just before.
staleBefore(p, k) ==
    IF last.op \in {"setContent", "setAllowsMultipleContent"} /\ last.p = p
    THEN last.before[k]
    ELSE Uncached

\* get(proxy, k)
Get(p, k) ==
    IF k \notin installed[p]
    THEN unknownProperty(p, k, UndefinedVal, "get")
    ELSE LET r == cpGet(p, k)
         IN  /\ keyCache' = [keyCache EXCEPT ![p][k] = r.ret]
             /\ ocCache' = IF r.ran
                           THEN [ocCache EXCEPT ![p] = getObservableContent(p)]
                           ELSE ocCache
             /\ last' = Outcome("get", p, k, UndefinedVal, r.ret, Null, FALSE,
                                r.ran, FALSE, FALSE, keyCache[p],
                                staleBefore(p, k))
             /\ effects' = NoEffects
             /\ UNCHANGED <<live, rejecting, content, allowsMultipleContent, isEditable,
                            installed, proxiedProperties, props>>

\* set(proxy, k, value)
Set(p, k, value) ==
    IF k \notin installed[p]
    THEN unknownProperty(p, k, value, "set")
    ELSE LET oc == getObservableContent(p)
             r  == computedAccessor(oc, isEditable[p], k, value, props)
         IN  /\ ocCache' = [ocCache EXCEPT ![p] = oc]
             /\ props' = r.props
             /\ IF r.threw
                THEN \E dropped \in BOOLEAN :
                        keyCache' =
                            IF dropped
                            THEN [elementDidChange(keyCache, r.written, k, p)
                                  EXCEPT ![p][k] = Uncached]
                            ELSE elementDidChange(keyCache, r.written, k, p)
                ELSE keyCache' =
                        [elementDidChange(keyCache, r.written, k, p)
                         EXCEPT ![p][k] = r.ret]
             /\ last' = Outcome("set", p, k, value, r.ret, Null, r.threw,
                                TRUE, FALSE, props' # props, keyCache[p],
                                Uncached)
             /\ effects' = NoEffects
             /\ UNCHANGED <<live, rejecting, content, allowsMultipleContent, isEditable,
                            installed, proxiedProperties>>

\* set(o, k, value) on a content object, made by code outside the proxy.
ElementSet(o, k, value) ==
    /\ o \notin rejecting
    /\ props' = [props EXCEPT ![o][k] = value]
    /\ keyCache' = elementDidChange(keyCache, {o}, k, "")
    /\ last' = Outcome("elementSet", "", k, value, Undefined, o, FALSE, FALSE,
                       FALSE, props' # props, NoBefore, Uncached)
    /\ effects' = NoEffects
    /\ UNCHANGED <<live, rejecting, content, allowsMultipleContent, isEditable, ocCache,
                   installed, proxiedProperties>>

\* Mutant: hasContent looks at content instead of observableContent.
hasContentOfContent(p) == content[p] # Null

\* The body of hasContent: !SC.none(this.get('observableContent')).
hasContent(p) == getObservableContent(p) # Null

\* get(proxy, 'hasContent'); the property is not cacheable.
GetHasContent(p) ==
    /\ ocCache' = [ocCache EXCEPT ![p] = getObservableContent(p)]
    /\ last' = Outcome("getHasContent", p, "", UndefinedVal, Undefined, Null,
                       FALSE, TRUE, FALSE, FALSE, keyCache[p], Uncached)
    /\ effects' = Effects({}, NoCalls, {}, hasContent(p), "")
    /\ UNCHANGED <<live, rejecting, content, allowsMultipleContent, isEditable,
                   installed, keyCache, proxiedProperties, props>>

\* The objects destroy() calls destroy() on: observableContent when it is
\* not null and exposes a destroy function.
destroyTargets(oc) == IF oc # Null /\ oc \in Destroyable THEN {oc} ELSE {}

\* Mutant: destroy() passes the call on and leaves content as it is.
DestroyKeepContent(p) ==
    /\ ocCache' = [ocCache EXCEPT ![p] = getObservableContent(p)]
    /\ last' = Outcome("destroy", p, "", UndefinedVal, Undefined,
                       getObservableContent(p), FALSE, FALSE, FALSE, FALSE,
                       keyCache[p], Uncached)
    /\ effects' = Effects(destroyTargets(getObservableContent(p)), NoCalls,
                          {}, FALSE, p)
    /\ UNCHANGED <<live, rejecting, content, allowsMultipleContent, isEditable,
                   installed, keyCache, proxiedProperties, props>>

\* Mutant: destroy() also forgets the forwarded keys of the instance.
DestroyForgetsKeys(p) ==
    /\ content' = [content EXCEPT ![p] = Null]
    /\ ocCache' = ocCacheAfterSet(p, "content")
    /\ installed' = [installed EXCEPT ![p] = {}]
    /\ proxiedProperties' = {}
    /\ keyCache' = [keyCache EXCEPT ![p] = NoBefore]
    /\ last' = Outcome("destroy", p, "", UndefinedVal, Undefined,
                       getObservableContent(p), FALSE, FALSE, FALSE, FALSE,
                       keyCache[p], Uncached)
    /\ effects' = Effects(destroyTargets(getObservableContent(p)), NoCalls,
                          {}, FALSE, p)
    /\ UNCHANGED <<live, rejecting, allowsMultipleContent, isEditable, props>>

\* proxy.destroy(): destroy() of observableContent when it has one, then
\* set(this, 'content', null); returns the receiver. last.ref is the
\* observableContent it read.
Destroy(p) ==
    /\ content' = [content EXCEPT ![p] = Null]
    /\ ocCache' = ocCacheAfterSet(p, "content")
    /\ keyCache' = contentDidChange(observableContentDidChange(keyCache, p), p)
    /\ last' = Outcome("destroy", p, "", UndefinedVal, Undefined,
                       getObservableContent(p), FALSE, FALSE, FALSE, FALSE,
                       keyCache[p], Uncached)
    /\ effects' = Effects(destroyTargets(getObservableContent(p)),
                          contentDidChangeCalls(p), {}, FALSE, p)
    /\ UNCHANGED <<live, rejecting, allowsMultipleContent, isEditable, installed,
                   proxiedProperties, props>>

Next ==
    \/ \E p \in live, c \in Refs : SetContent(p, c)
    \/ \E p \in live, b \in BOOLEAN : SetAllowsMultipleContent(p, b)
    \/ \E p \in live, b \in BOOLEAN : SetIsEditable(p, b)
    \/ \E p \in live : GetObservableContent(p)
    \/ \E p \in live, k \in Keys : Get(p, k)
    \/ \E p \in live, k \in Keys, v \in PropVals : Set(p, k, v)
    \/ \E o \in Objects, k \in Keys, v \in PropVals : ElementSet(o, k, v)
    \/ \E p \in live : GetHasContent(p)
    \/ \E p \in live : Destroy(p)

Spec == Init /\ [][Next]_vars

\* Two proxies created from the one class: both start empty, and both read
\* _proxiedProperties from the prototype (line 212), so the one set serves
\* both.
TwoRefs == {Null, "o1", "multi"}

InitTwo ==
    /\ live = Proxies
    /\ rejecting = {}
    /\ content = [p \in Proxies |-> Null]
    /\ allowsMultipleContent = [p \in Proxies |-> FALSE]
    /\ isEditable = [p \in Proxies |-> TRUE]
    /\ ocCache = [p \in Proxies |-> NoOC]
    /\ installed = [p \in Proxies |-> {}]
    /\ keyCache = [p \in Proxies |-> NoBefore]
    /\ proxiedProperties = {}
    /\ props \in [Objects -> [Keys -> Values]]
    /\ last = [op |-> "create", p |-> "", key |-> "", arg |-> UndefinedVal,
               ret |-> Undefined, ref |-> Null, threw |-> FALSE,
               ran |-> FALSE, first |-> FALSE, modified |-> FALSE,
               before |-> NoBefore, stale |-> Uncached, prevOp |-> "create",
               prevP |-> ""]
    /\ effects = NoEffects

NextTwo ==
    \/ \E p \in live, c \in TwoRefs : SetContent(p, c)
    \/ \E p \in live, b \in BOOLEAN : SetAllowsMultipleContent(p, b)
    \/ \E p \in live, k \in Keys : Get(p, k)
    \/ \E p \in live, k \in Keys, v \in Values : Set(p, k, v)
    \/ \E p \in live : Destroy(p)

SpecTwo == InitTwo /\ [][NextTwo]_vars

\* One proxy whose content objects are supplied by the caller: set on the
\* object o2 throws (as set does on an object that is itself a proxy that
\* is not editable).
InitRejecting ==
    /\ live = {"A"}
    /\ rejecting = {"o2"}
    /\ content = [p \in Proxies |-> Null]
    /\ allowsMultipleContent = [p \in Proxies |-> FALSE]
    /\ isEditable = [p \in Proxies |-> TRUE]
    /\ ocCache = [p \in Proxies |-> NoOC]
    /\ installed = [p \in Proxies |-> {}]
    /\ keyCache = [p \in Proxies |-> NoBefore]
    /\ proxiedProperties = {}
    /\ props \in [Objects -> [Keys -> PropVals]]
    /\ last = [op |-> "create", p |-> "", key |-> "", arg |-> UndefinedVal,
               ret |-> Undefined, ref |-> Null, threw |-> FALSE,
               ran |-> FALSE, first |-> FALSE, modified |-> FALSE,
               before |-> NoBefore, stale |-> Uncached, prevOp |-> "create",
               prevP |-> ""]
    /\ effects = NoEffects

SpecRejecting == InitRejecting /\ [][Next]_vars

\* ---------------------------------------------------------------- claims
\* The key registry proxy p reads as this._proxiedProperties: the set
\* created once at line 212, on the prototype.
forwardedKeys(p) == proxiedProperties

\* The target the resolver yields for the current content and flag of p.
target(p) == observableContent(content[p], allowsMultipleContent[p])

\* The last operation was a read of observableContent on p.
ReadOC(p) == last.op = "getObservableContent" /\ last.p = p

\* C1: after any writes of content and allowsMultipleContent, a read of
\* observableContent returns the resolver's result for the current pair
\* (null for null, the content for a non-collection, null for length 0,
\* null for length > 1 without allowsMultipleContent, the collection for
\* length > 1 with it), and the cached value is never stale.
C1_ObservableContentFollowsPair ==
    \A p \in live :
        LET c   == content[p]
            a   == allowsMultipleContent[p]
            len == Len(items(c))
        IN  /\ ocCache[p] # NoOC => ocCache[p] = observableContent(c, a)
            /\ ReadOC(p) =>
                /\ last.ref = observableContent(c, a)
                /\ c = Null => last.ref = Null
                /\ c \in Objects => last.ref = c
                /\ (c \in Collections /\ len = 0) => last.ref = Null
                /\ (c \in Collections /\ len > 1 /\ ~a) => last.ref = Null
                /\ (c \in Collections /\ len > 1 /\ a) => last.ref = c

\* C1 witness: the flag was set, then observableContent was read again and
\* is the two-element collection itself.
C1_Witness ==
    /\ ReadOC("A") /\ last.prevOp = "setAllowsMultipleContent"
    /\ content["A"] = "multi" /\ allowsMultipleContent["A"]
    /\ last.ref = "multi"

\* C2 (as claimed): for every content collection of length 1, whatever its
\* sole element and for both values of allowsMultipleContent,
\* observableContent is that sole element.
C2_SoleElementAlways ==
    \A p \in live :
        (ReadOC(p) /\ content[p] \in Collections /\ Len(items(content[p])) = 1)
            => last.ref = items(content[p])[1]

\* C2 (amended): for a content collection of length 1, observableContent is
\* the sole element, except that it is null when the sole element is itself
\* a collection and allowsMultipleContent is false.
C2_SoleElementUnlessNested ==
    \A p \in live :
        (ReadOC(p) /\ content[p] \in Collections /\ Len(items(content[p])) = 1)
            => LET sole == items(content[p])[1]
               IN  last.ref = IF sole \in Collections
                                 /\ ~allowsMultipleContent[p]
                              THEN Null ELSE sole

\* C2 witness: a one-element collection holding a collection, read with
\* allowsMultipleContent true, gives the inner collection.
C2_Witness ==
    /\ ReadOC("A") /\ content["A"] = "nested" /\ allowsMultipleContent["A"]
    /\ last.ref = "multi"

\* C3: while allowsMultipleContent is false, observableContent is never a
\* collection, neither as read nor as cached.
C3_NoCollectionInSingleMode ==
    \A p \in live :
        ~allowsMultipleContent[p] =>
            /\ ocCache[p] \notin Collections
            /\ ReadOC(p) => last.ref \notin Collections

\* C3 witness: a collection whose sole element is a collection, read in
\* single-target mode, gives null.
C3_Witness ==
    /\ ReadOC("A") /\ content["A"] = "nested" /\ ~allowsMultipleContent["A"]
    /\ last.ref = Null

\* The last operation was a get / a set of a forwarded key on p.
GotKey(p) == last.op = "get" /\ last.p = p
SetKey(p) == last.op = "set" /\ last.p = p

\* The values of k held now by the elements of collection t, in order.
gathered(t, k) == [i \in 1..Len(items(t)) |-> props[items(t)[i]][k]]

\* What key k resolves to against the current content of p and the current
\* properties: undefined without a target; for a collection undefined when
\* empty, the common value when all elements agree, else one entry per
\* element in order; for a scalar its own value.
resolved(p, k) ==
    LET t == target(p)
    IN  IF t = Null THEN Undefined
        ELSE IF t \in Collections
        THEN LET g == gathered(t, k)
             IN  IF Len(g) = 0 THEN Undefined
                 ELSE IF \A i, j \in DOMAIN g : g[i] = g[j] THEN Val(g[1])
                 ELSE Arr(g)
        ELSE Val(props[t][k])

\* C4: for an already-forwarded key, a write of content followed by a read
\* of the key returns the value resolved against the new content, never the
\* value cached from the previous content.
C4_ReadAfterContentWrite ==
    \A p \in live :
        /\ (GotKey(p) /\ ~last.first
                /\ last.prevOp = "setContent" /\ last.prevP = p)
            => last.ret = resolved(p, last.key)
        /\ (last.op = "setContent" /\ last.p = p)
            => \A k \in installed[p] : cpGet(p, k).ret = resolved(p, k)

\* C4 witness: the key was cached, content was written, and the read that
\* followed returned a value other than the cached one.
C4_Witness ==
    /\ GotKey("A") /\ ~last.first
    /\ last.prevOp = "setContent" /\ last.prevP = "A"
    /\ last.stale # Uncached /\ last.stale # last.ret

C6_ElementChangeObserved ==
    \A p \in live :
        (GotKey(p) /\ ~last.first /\ last.prevOp = "elementSet"
                /\ target(p) \in Collections)
            => last.ret = resolved(p, last.key)

\* The last operation on p wrote a defined value to an already-forwarded key.
WroteForwarded(p) == SetKey(p) /\ ~last.first /\ last.arg # UndefinedVal

\* C7 (as claimed): while isEditable is false every write of a value to a
\* forwarded key fails with the editability error, whatever the content
\* (scalar target, multi-target or no target), and modifies no object.
C7_NotEditableAlwaysThrows ==
    \A p \in live :
        (WroteForwarded(p) /\ ~isEditable[p])
            => last.threw /\ ~last.modified

\* C7 (amended): while isEditable is false a write of a value to a forwarded
\* key fails with the editability error exactly when observableContent is
\* not null (scalar target or multi-target); with observableContent null it
\* raises nothing; in both cases no object is modified.
C7_NotEditableThrowsWithTarget ==
    \A p \in live :
        (WroteForwarded(p) /\ ~isEditable[p])
            => /\ last.threw <=> target(p) # Null
               /\ ~last.modified

\* C7 witness: a write in multi-target mode on a proxy that is not editable
\* threw.
C7_Witness ==
    /\ WroteForwarded("A") /\ ~isEditable["A"]
    /\ target("A") = "multi" /\ last.threw
    /\ props["o1"]["name"] # last.arg

\* C8: while observableContent is null and isEditable is true, a read of any
\* forwarded key returns undefined and a write of any forwarded key raises
\* nothing and modifies no object.
C8_NullTargetTolerated ==
    \A p \in live :
        (target(p) = Null /\ isEditable[p])
            => /\ GotKey(p) => last.ret = Undefined
               /\ SetKey(p) => ~last.threw /\ ~last.modified
               /\ \A k \in installed[p] : cpGet(p, k).ret = Undefined

\* C8 witness: a value was written to a forwarded key while content is a
\* two-element collection and allowsMultipleContent is false.
C8_Witness ==
    /\ WroteForwarded("A") /\ isEditable["A"]
    /\ content["A"] = "multi" /\ ~allowsMultipleContent["A"]
    /\ props["o1"]["name"] # last.arg /\ props["o2"]["name"] # last.arg

\* C9: with isEditable true and a target, a write of a defined value v to a
\* forwarded key sets the key to v on a scalar target and on every element
\* of a collection target, returns v, and a read that follows returns v.
C9_WriteThrough ==
    \A p \in live :
        (WroteForwarded(p) /\ isEditable[p] /\ target(p) # Null)
            => LET t == target(p)
                   k == last.key
               IN  /\ ~last.threw
                   /\ last.ret = Val(last.arg)
                   /\ t \in Objects => props[t][k] = last.arg
                   /\ t \in Collections =>
                        \A i \in DOMAIN items(t) :
                            props[items(t)[i]][k] = last.arg
                   /\ cpGet(p, k).ret = Val(last.arg)

\* C9 witness: a write in multi-target mode changed the elements.
C9_Witness ==
    /\ WroteForwarded("A") /\ isEditable["A"] /\ target("A") = "multi"
    /\ last.modified
    /\ props["o1"]["name"] = last.arg /\ props["o2"]["name"] = last.arg

\* C10 (as claimed): a write of a value to a key never accessed before on the
\* proxy behaves like a write to a forwarded key: with a target and isEditable
\* true the target ends holding the value, and with a target and isEditable
\* false the write raises the editability error.
C10_FirstWriteForwarded ==
    \A p \in live :
        (SetKey(p) /\ last.first /\ last.arg # UndefinedVal
                /\ target(p) # Null)
            => /\ isEditable[p] =>
                    \A o \in setTargets(target(p)) :
                        props[o][last.key] = last.arg
               /\ ~isEditable[p] => last.threw

\* The last operation was destroy() on p.
Destroyed(p) == last.op = "destroy" /\ last.p = p

\* C11: destroy() on a proxy whose observableContent exposes destroy invokes
\* it exactly once (and nothing else), leaves content null and hasContent
\* false and returns the proxy; a second destroy() right after it invokes
\* no destroy at all.
C11_DestroyCascadesOnce ==
    \A p \in live :
        /\ Destroyed(p) =>
            /\ content[p] = Null /\ ~hasContent(p) /\ effects.self = p
            /\ \A o \in Objects :
                effects.destroyed[o] =
                    IF o = last.ref /\ o \in Destroyable THEN 1 ELSE 0
            /\ (last.prevOp = "destroy" /\ last.prevP = p)
                => \A o \in Objects : effects.destroyed[o] = 0
        /\ (last.op = "getHasContent" /\ last.p = p
                /\ last.prevOp = "destroy" /\ last.prevP = p)
            => ~effects.bool

\* C11 witness: content was set, then destroy() called the destroy function
\* of the target and cleared content.
C11_Witness ==
    /\ Destroyed("A") /\ last.ref = "o1" /\ last.prevOp = "setContent"
    /\ effects.destroyed["o1"] = 1 /\ content["A"] = Null

\* C12: with two or more proxies forwardedKeys is per-instance: after the
\* first access of key k on one proxy, k is in another proxy's forwardedKeys
\* only if that proxy accessed k itself, and a content change on a proxy
\* sends change notifications only for keys forwarded on that proxy.
\* (Violated: the registry of line 212 is one set shared through the
\* prototype.)
C12_ForwardedKeysPerInstance ==
    \A p \in live :
        /\ (last.first /\ last.p = p)
            => \A q \in live \ {p} :
                last.key \in forwardedKeys(q) => last.key \in installed[q]
        /\ (last.op = "setContent" /\ last.p = p)
            => \A k \in Keys :
                effects.notified[k] = 1 => k \in installed[p]

\* A write of the content attribute of p: set(p, 'content', c) or destroy().
ContentChanged(p) == last.op \in {"setContent", "destroy"} /\ last.p = p

\* C13: on every change of the content attribute, each key in forwardedKeys
\* has its cached value dropped and one change notification sent for it,
\* whether or not the forwarded value or observableContent differs after the
\* change.
C13_ContentChangeInvalidatesAll ==
    \A p \in live :
        ContentChanged(p)
            => \A k \in forwardedKeys(p) :
                /\ keyCache[p][k] = Uncached
                /\ effects.notified[k] = 1

\* C13 witness: the content was replaced by one under which the key resolves
\* to the very value that was cached before; the cache was dropped and the
\* key notified all the same.
C13_Witness ==
    /\ last.op = "setContent" /\ last.p = "A"
    /\ "name" \in forwardedKeys("A")
    /\ last.before["name"] # Uncached
    /\ last.before["name"] = resolved("A", "name")
    /\ keyCache["A"]["name"] = Uncached
    /\ effects.notified["name"] = 1

\* C14: in every reachable state each key in a proxy's forwardedKeys has its
\* accessor installed on that proxy, and a read or write of a key whose
\* accessor is installed defines no accessor again.
\* (Violated with two proxies: a key first accessed on one proxy is in the
\* registry the other proxy reads, which has no accessor for it.)
C14_OneAccessorPerKey ==
    \A p \in live :
        /\ \A k \in forwardedKeys(p) : k \in installed[p]
        /\ ((GotKey(p) \/ SetKey(p)) /\ ~last.first)
            => \A k \in Keys : effects.defined[k] = 0
        /\ ((GotKey(p) \/ SetKey(p)) /\ last.first)
            => \A k \in Keys :
                effects.defined[k] = IF k = last.key THEN 1 ELSE 0

\* A write of allowsMultipleContent on p came just before the last
\* operation, or is the last operation.
AfterFlagWrite(p) ==
    last.prevOp = "setAllowsMultipleContent" /\ last.prevP = p
FlagWritten(p) == last.op = "setAllowsMultipleContent" /\ last.p = p

\* C15: a write of allowsMultipleContent alone invalidates observableContent
\* and every forwarded accessor: the read of an already read key that
\* follows returns the value resolved against the new observableContent
\* (undefined when it became null, the collapsed or per-element value when
\* it became the collection), and so would a read of any installed key.
C15_FlagChangeInvalidates ==
    \A p \in live :
        /\ (GotKey(p) /\ ~last.first /\ AfterFlagWrite(p))
            => last.ret = resolved(p, last.key)
        /\ FlagWritten(p)
            => /\ getObservableContent(p) = target(p)
               /\ \A k \in installed[p] : cpGet(p, k).ret = resolved(p, k)

\* C15 witness: content is a collection of two elements, the key was cached
\* in multi-target mode, allowsMultipleContent was set to false, and the
\* read that followed returned undefined instead of the cached value.
C15_Witness ==
    /\ GotKey("A") /\ ~last.first /\ AfterFlagWrite("A")
    /\ content["A"] = "multi" /\ ~allowsMultipleContent["A"]
    /\ last.stale \notin {Uncached, Undefined}
    /\ last.ret = Undefined

\* A value was written to an installed key of p while observableContent is
\* null.
WroteWithoutTarget(p) == WroteForwarded(p) /\ target(p) = Null

\* C16 (as claimed): a write of a defined value v to a forwarded key while
\* observableContent is null records v: a read of the key right after it
\* returns v.
C16_NullWriteRecordsValue ==
    \A p \in live :
        WroteWithoutTarget(p) => cpGet(p, last.key).ret = Val(last.arg)

\* C16 (amended): a write of a defined value v to a forwarded key while
\* observableContent is null raises nothing, modifies no object, and has the
\* accessor return and cache undefined: a read of the key right after it
\* returns undefined, not v.
C16_NullWriteRecordsUndefined ==
    \A p \in live :
        /\ WroteWithoutTarget(p)
            => /\ ~last.threw /\ ~last.modified
               /\ last.ret = Undefined
               /\ keyCache[p][last.key] = Undefined
               /\ cpGet(p, last.key) = [ret |-> Undefined, ran |-> FALSE]
        /\ (GotKey(p) /\ last.prevOp = "set" /\ last.prevP = p
                /\ target(p) = Null)
            => last.ret = Undefined

\* C16 witness: a value was written to a forwarded key while content is
\* null, and the cache of the key holds undefined after it.
C16_Witness ==
    /\ WroteWithoutTarget("A") /\ content["A"] = Null
    /\ last.arg \in Values
    /\ keyCache["A"]["name"] = Undefined

\* No step removes a key from the registry or an accessor from a proxy.
KeysOnlyGrow ==
    /\ proxiedProperties \subseteq proxiedProperties'
    /\ \A p \in Proxies :
        /\ forwardedKeys(p) \subseteq forwardedKeys(p)'
        /\ installed[p] \subseteq installed'[p]

\* New content was set on p right after destroy().
ReusedAfterDestroy(p) ==
    /\ last.op = "setContent" /\ last.p = p
    /\ last.prevOp = "destroy" /\ last.prevP = p

\* C17: forwardedKeys only grows: no operation (read, write, content swap,
\* write of allowsMultipleContent or isEditable, destroy) removes a key from
\* forwardedKeys or uninstalls an accessor, and after destroy() followed by
\* a write of new content the forwarded keys resolve against the new
\* content.
C17_ForwardedKeysOnlyGrow ==
    /\ [][KeysOnlyGrow]_vars
    /\ [](\A p \in live :
            ReusedAfterDestroy(p)
                => \A k \in installed[p] : cpGet(p, k).ret = resolved(p, k))

\* C17 witness: a key was forwarded, the proxy was destroyed and then given
\* an object as content; the key is still forwarded and reads as the
\* object's value.
C17_Witness ==
    /\ ReusedAfterDestroy("A") /\ content["A"] = "o1"
    /\ "name" \in installed["A"] /\ "name" \in forwardedKeys("A")
    /\ props["o1"]["name"] \in Values
    /\ cpGet("A", "name").ret = Val(props["o1"]["name"])

\* hasContent of p was read by the last operation.
ReadHasContent(p) == last.op = "getHasContent" /\ last.p = p

\* C18: in every reachable state a read of hasContent returns true exactly
\* when observableContent is non-null for the current content and
\* allowsMultipleContent; it is false for an empty collection and for a
\* collection of several elements with allowsMultipleContent false.
C18_HasContentIffTarget ==
    \A p \in live :
        /\ hasContent(p) <=> target(p) # Null
        /\ ReadHasContent(p) => (effects.bool <=> target(p) # Null)
        /\ (content[p] = "empty"
                \/ (Len(items(content[p])) > 1 /\ ~allowsMultipleContent[p]))
            => ~hasContent(p)

\* C18 witness: hasContent was read as false while content is a collection
\* of two elements and allowsMultipleContent is false.
C18_Witness ==
    /\ ReadHasContent("A") /\ ~effects.bool
    /\ content["A"] = "multi" /\ ~allowsMultipleContent["A"]

\* A write to an installed key of p raised an error.
WriteFailed(p) == SetKey(p) /\ ~last.first /\ last.threw

\* C19: a forwarded write that fails leaves the content objects and the
\* registry unchanged: when the write raises (the editability error, or the
\* set of some element failing during a multi-target write), no target and
\* no element of a target collection is modified and no key is added to
\* forwardedKeys.
\* (Violated: setEach has set the elements before the failing one, and
\* nothing undoes it.)
C19_FailedWriteChangesNothing ==
    \A p \in live :
        WriteFailed(p)
            => /\ ~last.modified
               /\ \A k \in Keys : effects.defined[k] = 0

\* undefined was written to an installed key of p.
WroteUndefined(p) == SetKey(p) /\ ~last.first /\ last.arg = UndefinedVal

\* C20: a write of undefined to a forwarded key is handled as a read: it
\* modifies neither the target nor any element, raises no editability error
\* even when isEditable is false, and yields the value the key resolves to
\* now, which is also the value a read that follows returns.
C20_UndefinedWriteIsRead ==
    \A p \in live :
        WroteUndefined(p)
            => /\ ~last.threw /\ ~last.modified
               /\ last.ret = resolved(p, last.key)
               /\ cpGet(p, last.key).ret = resolved(p, last.key)

\* C20 witness: undefined was written to a forwarded key of a proxy that is
\* not editable and has an object holding a value as target; the write
\* yielded that value.
C20_Witness ==
    /\ WroteUndefined("A") /\ ~isEditable["A"]
    /\ target("A") = "o1" /\ props["o1"]["name"] \in Values
    /\ last.ret = Val(props["o1"]["name"]) /\ ~last.threw

====
